---- MODULE Spec2Model ----
(***************************************************************************)
(* PlayMatch: Elo rating engine (server/utils/elo.js), match result        *)
(* reporting and cancellation (server/routes/matches.js) and matchmaking   *)
(* (server/routes/matchmaking part of matches.js), modelled over a         *)
(* PostgreSQL store in which every pool.query is one atomic step and every *)
(* await is a point where other requests may run.                          *)
(*                                                                         *)
(* Numbers.  Ratings are DECIMAL(10,2); the model keeps them as integers   *)
(* in hundredths of a rating point (1500.00 is 150000).  Scores and        *)
(* probabilities are fixed-point integers with Scale units to 1.           *)
(***************************************************************************)
EXTENDS Integers, Sequences, FiniteSets, TLC

(***************************************************************************)
(* Bounds of the model.                                                    *)
(***************************************************************************)
\* total number of HTTP requests served in one behaviour
MaxCalls == 3
\* number of those that are matchmaking requests
MaxMatchmakingCalls == 2
\* number of rows the matches table may hold
MaxMatches == 2
\* number of rows the match_requests table may hold
MaxRequests == 2
\* largest games_played value drawn for the rating-engine inputs
MaxGames == 31
\* largest number of players stored when findMatchCandidates is called on its own
MaxPlayers == 12

(***************************************************************************)
(* Fixed-point representation.                                             *)
(***************************************************************************)
\* units of the fixed-point representation of 1.0
Scale == 10000000
\* hundredths of a rating point in one rating point
Cents == 100
\* the expected-score table covers rating differences of -MaxDiff..MaxDiff points
MaxDiff == 400
\* SQL NULL in a numeric column
Null == -999999
\* NaN, which a DECIMAL column stores and JavaScript arithmetic propagates
NaN == -777777

\* Scale / (1 + 10^(-d/400)) rounded to the nearest unit, for d = -400 .. 400
ExpectedTable ==
  <<
     909091, 913860, 918651, 923464, 928301, 933160, 938042, 942946,
     947874, 952825, 957799, 962796, 967816, 972860, 977927, 983017,
     988132, 993270, 998431, 1003617, 1008826, 1014060, 1019317, 1024599,
     1029905, 1035235, 1040589, 1045969, 1051372, 1056800, 1062253, 1067731,
     1073233, 1078761, 1084313, 1089891, 1095494, 1101122, 1106775, 1112454,
     1118158, 1123887, 1129643, 1135424, 1141231, 1147063, 1152922, 1158806,
     1164717, 1170654, 1176617, 1182606, 1188622, 1194664, 1200733, 1206828,
     1212950, 1219099, 1225275, 1231477, 1237707, 1243963, 1250247, 1256558,
     1262896, 1269261, 1275654, 1282074, 1288522, 1294997, 1301501, 1308031,
     1314590, 1321177, 1327791, 1334434, 1341104, 1347803, 1354530, 1361285,
     1368069, 1374881, 1381722, 1388591, 1395488, 1402415, 1409370, 1416354,
     1423367, 1430409, 1437479, 1444579, 1451708, 1458866, 1466054, 1473270,
     1480517, 1487792, 1495097, 1502431, 1509796, 1517189, 1524613, 1532066,
     1539549, 1547062, 1554605, 1562178, 1569780, 1577413, 1585076, 1592770,
     1600493, 1608247, 1616031, 1623845, 1631690, 1639566, 1647472, 1655408,
     1663375, 1671373, 1679402, 1687461, 1695551, 1703672, 1711824, 1720006,
     1728220, 1736464, 1744740, 1753047, 1761385, 1769754, 1778154, 1786585,
     1795048, 1803542, 1812067, 1820624, 1829212, 1837831, 1846482, 1855164,
     1863878, 1872623, 1881400, 1890208, 1899048, 1907920, 1916823, 1925758,
     1934725, 1943723, 1952753, 1961815, 1970908, 1980034, 1989191, 1998379,
     2007600, 2016853, 2026137, 2035453, 2044801, 2054181, 2063593, 2073036,
     2082512, 2092019, 2101558, 2111129, 2120732, 2130367, 2140034, 2149733,
     2159463, 2169226, 2179020, 2188846, 2198704, 2208594, 2218515, 2228469,
     2238454, 2248471, 2258520, 2268601, 2278713, 2288857, 2299033, 2309241,
     2319480, 2329751, 2340053, 2350387, 2360753, 2371150, 2381579, 2392039,
     2402531, 2413054, 2423608, 2434194, 2444811, 2455460, 2466139, 2476850,
     2487592, 2498365, 2509169, 2520005, 2530871, 2541768, 2552696, 2563655,
     2574644, 2585665, 2596716, 2607797, 2618910, 2630052, 2641226, 2652429,
     2663663, 2674927, 2686221, 2697546, 2708900, 2720285, 2731699, 2743144,
     2754618, 2766121, 2777655, 2789218, 2800810, 2812432, 2824083, 2835763,
     2847472, 2859211, 2870978, 2882775, 2894600, 2906454, 2918336, 2930247,
     2942186, 2954154, 2966150, 2978174, 2990226, 3002306, 3014414, 3026549,
     3038712, 3050903, 3063121, 3075366, 3087638, 3099938, 3112264, 3124618,
     3136997, 3149404, 3161837, 3174296, 3186782, 3199293, 3211831, 3224394,
     3236983, 3249598, 3262238, 3274904, 3287594, 3300310, 3313050, 3325816,
     3338606, 3351420, 3364259, 3377122, 3390009, 3402920, 3415855, 3428813,
     3441795, 3454800, 3467828, 3480880, 3493954, 3507051, 3520170, 3533312,
     3546475, 3559661, 3572869, 3586099, 3599350, 3612623, 3625916, 3639231,
     3652567, 3665923, 3679300, 3692697, 3706115, 3719552, 3733009, 3746486,
     3759982, 3773498, 3787033, 3800586, 3814159, 3827750, 3841359, 3854986,
     3868632, 3882295, 3895976, 3909674, 3923389, 3937122, 3950871, 3964637,
     3978419, 3992218, 4006032, 4019862, 4033708, 4047570, 4061446, 4075338,
     4089244, 4103165, 4117100, 4131050, 4145013, 4158990, 4172981, 4186985,
     4201002, 4215032, 4229075, 4243130, 4257198, 4271277, 4285369, 4299472,
     4313586, 4327712, 4341848, 4355995, 4370153, 4384321, 4398499, 4412686,
     4426884, 4441090, 4455306, 4469531, 4483765, 4498006, 4512257, 4526515,
     4540781, 4555054, 4569335, 4583623, 4597918, 4612219, 4626527, 4640841,
     4655161, 4669486, 4683817, 4698153, 4712494, 4726840, 4741191, 4755545,
     4769904, 4784267, 4798633, 4813002, 4827375, 4841750, 4856128, 4870509,
     4884891, 4899276, 4913662, 4928049, 4942438, 4956828, 4971218, 4985609,
     5000000, 5014391, 5028782, 5043172, 5057562, 5071951, 5086338, 5100724,
     5115109, 5129491, 5143872, 5158250, 5172625, 5186998, 5201367, 5215733,
     5230096, 5244455, 5258809, 5273160, 5287506, 5301847, 5316183, 5330514,
     5344839, 5359159, 5373473, 5387781, 5402082, 5416377, 5430665, 5444946,
     5459219, 5473485, 5487743, 5501994, 5516235, 5530469, 5544694, 5558910,
     5573116, 5587314, 5601501, 5615679, 5629847, 5644005, 5658152, 5672288,
     5686414, 5700528, 5714631, 5728723, 5742802, 5756870, 5770925, 5784968,
     5798998, 5813015, 5827019, 5841010, 5854987, 5868950, 5882900, 5896835,
     5910756, 5924662, 5938554, 5952430, 5966292, 5980138, 5993968, 6007782,
     6021581, 6035363, 6049129, 6062878, 6076611, 6090326, 6104024, 6117705,
     6131368, 6145014, 6158641, 6172250, 6185841, 6199414, 6212967, 6226502,
     6240018, 6253514, 6266991, 6280448, 6293885, 6307303, 6320700, 6334077,
     6347433, 6360769, 6374084, 6387377, 6400650, 6413901, 6427131, 6440339,
     6453525, 6466688, 6479830, 6492949, 6506046, 6519120, 6532172, 6545200,
     6558205, 6571187, 6584145, 6597080, 6609991, 6622878, 6635741, 6648580,
     6661394, 6674184, 6686950, 6699690, 6712406, 6725096, 6737762, 6750402,
     6763017, 6775606, 6788169, 6800707, 6813218, 6825704, 6838163, 6850596,
     6863003, 6875382, 6887736, 6900062, 6912362, 6924634, 6936879, 6949097,
     6961288, 6973451, 6985586, 6997694, 7009774, 7021826, 7033850, 7045846,
     7057814, 7069753, 7081664, 7093546, 7105400, 7117225, 7129022, 7140789,
     7152528, 7164237, 7175917, 7187568, 7199190, 7210782, 7222345, 7233879,
     7245382, 7256856, 7268301, 7279715, 7291100, 7302454, 7313779, 7325073,
     7336337, 7347571, 7358774, 7369948, 7381090, 7392203, 7403284, 7414335,
     7425356, 7436345, 7447304, 7458232, 7469129, 7479995, 7490831, 7501635,
     7512408, 7523150, 7533861, 7544540, 7555189, 7565806, 7576392, 7586946,
     7597469, 7607961, 7618421, 7628850, 7639247, 7649613, 7659947, 7670249,
     7680520, 7690759, 7700967, 7711143, 7721287, 7731399, 7741480, 7751529,
     7761546, 7771531, 7781485, 7791406, 7801296, 7811154, 7820980, 7830774,
     7840537, 7850267, 7859966, 7869633, 7879268, 7888871, 7898442, 7907981,
     7917488, 7926964, 7936407, 7945819, 7955199, 7964547, 7973863, 7983147,
     7992400, 8001621, 8010809, 8019966, 8029092, 8038185, 8047247, 8056277,
     8065275, 8074242, 8083177, 8092080, 8100952, 8109792, 8118600, 8127377,
     8136122, 8144836, 8153518, 8162169, 8170788, 8179376, 8187933, 8196458,
     8204952, 8213415, 8221846, 8230246, 8238615, 8246953, 8255260, 8263536,
     8271780, 8279994, 8288176, 8296328, 8304449, 8312539, 8320598, 8328627,
     8336625, 8344592, 8352528, 8360434, 8368310, 8376155, 8383969, 8391753,
     8399507, 8407230, 8414924, 8422587, 8430220, 8437822, 8445395, 8452938,
     8460451, 8467934, 8475387, 8482811, 8490204, 8497569, 8504903, 8512208,
     8519483, 8526730, 8533946, 8541134, 8548292, 8555421, 8562521, 8569591,
     8576633, 8583646, 8590630, 8597585, 8604512, 8611409, 8618278, 8625119,
     8631931, 8638715, 8645470, 8652197, 8658896, 8665566, 8672209, 8678823,
     8685410, 8691969, 8698499, 8705003, 8711478, 8717926, 8724346, 8730739,
     8737104, 8743442, 8749753, 8756037, 8762293, 8768523, 8774725, 8780901,
     8787050, 8793172, 8799267, 8805336, 8811378, 8817394, 8823383, 8829346,
     8835283, 8841194, 8847078, 8852937, 8858769, 8864576, 8870357, 8876113,
     8881842, 8887546, 8893225, 8898878, 8904506, 8910109, 8915687, 8921239,
     8926767, 8932269, 8937747, 8943200, 8948628, 8954031, 8959411, 8964765,
     8970095, 8975401, 8980683, 8985940, 8991174, 8996383, 9001569, 9006730,
     9011868, 9016983, 9022073, 9027140, 9032184, 9037204, 9042201, 9047175,
     9052126, 9057054, 9061958, 9066840, 9071699, 9076536, 9081349, 9086140,
     9090909
  >>

(***************************************************************************)
(* server/utils/elo.js                                                     *)
(***************************************************************************)
\* calculateExpectedScore reading the table one rating point too high
calculateExpectedScoreShifted(playerRating, opponentRating) ==
  LET d  == playerRating - opponentRating
      q  == d \div Cents
  IN  ExpectedTable[IF q + MaxDiff + 2 > 2 * MaxDiff + 1 THEN q + MaxDiff + 1 ELSE q + MaxDiff + 2]

\* 1 / (1 + 10^((opponentRating - playerRating) / 400)), in Scale units.
\* Ratings are in hundredths; between two whole-point differences the table
\* is interpolated linearly.
calculateExpectedScore(playerRating, opponentRating) ==
  LET d  == playerRating - opponentRating
      q  == d \div Cents
      f  == d % Cents
      lo == ExpectedTable[q + MaxDiff + 1]
  IN  IF playerRating = NaN \/ opponentRating = NaN THEN NaN
      ELSE IF f = 0 THEN lo
      ELSE lo + ((ExpectedTable[q + MaxDiff + 2] - lo) * f + (Cents \div 2)) \div Cents

\* calculateNewRating that leaves the expected score out
calculateNewRatingNoExpected(currentRating, actualScore, expectedScore, kFactor) ==
  currentRating + (kFactor * actualScore + (Scale \div (2 * Cents))) \div (Scale \div Cents)

\* calculateNewRating with Math.floor in place of Math.round
calculateNewRatingFloored(currentRating, actualScore, expectedScore, kFactor) ==
  IF currentRating = NaN \/ expectedScore = NaN THEN NaN
  ELSE currentRating + (kFactor * (actualScore - expectedScore)) \div (Scale \div Cents)

\* Math.round(x * 100) / 100 of x = currentRating + kFactor * (actual - expected):
\* Math.round rounds halves up, \div rounds down.
calculateNewRating(currentRating, actualScore, expectedScore, kFactor) ==
  IF currentRating = NaN \/ expectedScore = NaN THEN NaN
  ELSE currentRating
         + (kFactor * (actualScore - expectedScore) + (Scale \div (2 * Cents)))
             \div (Scale \div Cents)

\* getKFactor without the tier of developing players
getKFactorTwoTiers(gamesPlayed) ==
  IF gamesPlayed < 30 THEN 32 ELSE 16

\* getKFactor with the first boundary one game late
getKFactorLateBoundary(gamesPlayed) ==
  IF gamesPlayed <= 10 THEN 32
  ELSE IF gamesPlayed < 30 THEN 24
  ELSE 16

getKFactor(gamesPlayed) ==
  IF gamesPlayed < 10 THEN 32
  ELSE IF gamesPlayed < 30 THEN 24
  ELSE 16

Outcomes == {"player1_win", "player2_win", "draw"}

\* the switch with a default branch that scores any other outcome as a draw
ActualScoresDefaultDraw(result) ==
  CASE result = "player1_win" -> [ok |-> TRUE, s1 |-> Scale, s2 |-> 0]
    [] result = "player2_win" -> [ok |-> TRUE, s1 |-> 0, s2 |-> Scale]
    [] OTHER                  -> [ok |-> TRUE, s1 |-> Scale \div 2, s2 |-> Scale \div 2]

\* the switch of calculateRatingChanges: the actual scores of the two players,
\* or the thrown Error('Invalid match result')
ActualScores(result) ==
  CASE result = "player1_win" -> [ok |-> TRUE, s1 |-> Scale, s2 |-> 0]
    [] result = "player2_win" -> [ok |-> TRUE, s1 |-> 0, s2 |-> Scale]
    [] result = "draw"        -> [ok |-> TRUE, s1 |-> Scale \div 2, s2 |-> Scale \div 2]
    [] OTHER                  -> [ok |-> FALSE, s1 |-> 0, s2 |-> 0]

NoChange == [newRating |-> Null, ratingChange |-> Null, kFactor |-> 0]

\* player1, player2: [rating, gamesPlayed].  error = TRUE models the throw.
calculateRatingChanges(player1, player2, result) ==
  LET player1Expected == calculateExpectedScore(player1.rating, player2.rating)
      player2Expected == calculateExpectedScore(player2.rating, player1.rating)
      player1KFactor  == getKFactor(player1.gamesPlayed)
      player2KFactor  == getKFactor(player2.gamesPlayed)
      actual          == ActualScores(result)
      player1NewRating ==
        calculateNewRating(player1.rating, actual.s1, player1Expected, player1KFactor)
      player2NewRating ==
        calculateNewRating(player2.rating, actual.s2, player2Expected, player2KFactor)
  IN  IF ~actual.ok
      THEN [error |-> TRUE, player1 |-> NoChange, player2 |-> NoChange]
      ELSE [error |-> FALSE,
            player1 |-> [newRating    |-> player1NewRating,
                         ratingChange |-> IF player1NewRating = NaN THEN NaN
                                          ELSE player1NewRating - player1.rating,
                         kFactor      |-> player1KFactor],
            player2 |-> [newRating    |-> player2NewRating,
                         ratingChange |-> IF player2NewRating = NaN THEN NaN
                                          ELSE player2NewRating - player2.rating,
                         kFactor      |-> player2KFactor]]

calculateWinProbability(playerRating, opponentRating) ==
  calculateExpectedScore(playerRating, opponentRating)

Abs(x) == IF x < 0 THEN -x ELSE x

isWithinRatingRange(rating1, rating2, maxDifference) ==
  Abs(rating1 - rating2) <= maxDifference

(***************************************************************************)
(* The store.  Requests are modelled from the point where the              *)
(* authentication middleware has set req.user.                             *)
(***************************************************************************)
Users == {1, 2, 3}
Sports == {1, 2}
\* the sport the clients of the model play and send requests for
SentSports == {1}
\* slots for the requests that are in flight at the same time
Procs == {1, 2}

Results == {"win", "loss", "draw"}
\* SQL NULL in a text column
NoResult == "null"

\* a request parameter that the client left out (JavaScript undefined)
Undefined == -888888
\* a user without a row in user_locations
NoLocation == [lon |-> Null, lat |-> Null]

VARIABLES
  engine,     \* the rating-engine call under test: arguments and returned value
  search,     \* the findMatchCandidates call under test: arguments and returned list
  users,      \* users joined with their primary user_locations row
  profiles,   \* player_profiles: [user -> [sport -> row]]
  matches,    \* matches: sequence of rows, the row id is the index
  requests,   \* match_requests: sequence of rows, the row id is the index
  procs,      \* the requests in flight: position and local variables
  calls,      \* number of requests served so far, and how many were matchmaking
  response,   \* the HTTP response sent last, with the request it answers
  audit       \* history: per match, what the handlers did for it

vars == <<engine, search, users, profiles, matches, requests, procs, calls, response, audit>>

MatchIds == 1..MaxMatches

\* the match ids a client sends: the rows there are, and one id without a row
SentMatchIds == {m \in MatchIds : m <= Len(matches) + 1}
\* the request ids a client sends, likewise
SentRequestIds == {r \in 1..MaxRequests : r <= Len(requests) + 1}

\* a row of matches as createMatch inserts it (status given by the caller)
NewMatchRow(player1Id, player2Id, sportId, status) ==
  [player1_id |-> player1Id, player2_id |-> player2Id, sport_id |-> sportId,
   status |-> status,
   player1_result |-> NoResult, player2_result |-> NoResult,
   player1_rating_before |-> Null, player2_rating_before |-> Null,
   player1_rating_after |-> Null, player2_rating_after |-> Null,
   rating_change_player1 |-> Null, rating_change_player2 |-> Null]

\* a row of player_profiles
ProfileRow(rating, w, l, d) ==
  [rating |-> rating, games_played |-> w + l + d,
   wins |-> w, losses |-> l, draws |-> d, is_active |-> TRUE]

\* a row of match_requests as the INSERT of POST /request creates it
NewRequestRow(requesterId, sportId, maxDistanceKm, minRating, maxRating) ==
  [requester_id |-> requesterId, sport_id |-> sportId, status |-> "active",
   matched_with_user_id |-> 0, max_distance_km |-> maxDistanceKm,
   min_rating |-> IF minRating = Undefined THEN Null ELSE minRating,
   max_rating |-> IF maxRating = Undefined THEN Null ELSE maxRating]

\* positions are on a grid of 100 m; lon and lat are the point's coordinates
InitUsers ==
  [u \in Users |->
     [is_verified |-> TRUE,
      location |-> CASE u = 1 -> [lon |-> 0, lat |-> 120]
                     [] u = 2 -> [lon |-> 10, lat |-> 120]
                     [] OTHER -> [lon |-> 0, lat |-> 130]]]

InitProfiles ==
  [u \in Users |->
     [s \in Sports |->
        CASE u = 1 -> ProfileRow(150000, 5, 3, 1)
          [] u = 2 -> ProfileRow(151600, 20, 9, 0)
          [] OTHER -> ProfileRow(148400, 0, 0, 0)]]

NoLocals ==
  [matchId |-> 0, user |-> 0, result |-> NoResult, isPlayer1 |-> FALSE,
   player1Result |-> NoResult, player2Result |-> NoResult,
   match |-> NewMatchRow(0, 0, 0, "none"),
   ratingChanges |-> [error |-> FALSE, player1 |-> NoChange, player2 |-> NoChange],
   pending |-> {},
   sportId |-> 0, userRating |-> Null, maxDistanceKm |-> 0,
   minRating |-> Null, maxRating |-> Null, maxRatingDiff |-> 0,
   requestId |-> 0, bestCandidate |-> 0]

IdleProc == [pc |-> "idle"] @@ NoLocals

\* elo: calls of calculateRatingChanges; completed: UPDATEs to 'completed';
\* credit1/2: profile UPDATEs of player 1/2; writes1/2: result UPDATEs of player 1/2
NoAudit == [elo |-> 0, completed |-> 0, credit1 |-> 0, credit2 |-> 0,
            writes1 |-> 0, writes2 |-> 0]

NoEngine == [called |-> FALSE,
             player1 |-> [rating |-> 0, gamesPlayed |-> 0],
             player2 |-> [rating |-> 0, gamesPlayed |-> 0],
             result |-> "none",
             returned |-> [error |-> FALSE, player1 |-> NoChange, player2 |-> NoChange]]

NoSearch == [called |-> FALSE, userId |-> 0, sportId |-> 0, userRating |-> Null,
             maxDistanceKm |-> 0, minRating |-> Null, maxRating |-> Null,
             maxRatingDiff |-> 0, failed |-> FALSE, returned |-> <<>>]

\* seen: the status of the match when the handler's first statement ran
NoResponse == [route |-> "none", matchId |-> 0, code |-> 0, seen |-> "none",
               candidates |-> <<>>]

\* the status of match id as a request sees it, "none" when there is no row
StatusOf(id) == IF id \in 1..Len(matches) THEN matches[id].status ELSE "none"

\* the store before any match request: players with profiles and locations
Init ==
  /\ engine = NoEngine
  /\ search = NoSearch
  /\ users = InitUsers
  /\ profiles = InitProfiles
  /\ requests = <<>>
  /\ matches = <<>>
  /\ procs = [p \in Procs |-> IdleProc]
  /\ calls = [all |-> 0, mm |-> 0]
  /\ response = NoResponse
  /\ audit = [m \in MatchIds |-> NoAudit]

\* a new request is taken by the lowest free slot
FreeSlot(p) ==
  /\ procs[p].pc = "idle"
  /\ \A q \in Procs : procs[q].pc = "idle" => p <= q
  /\ calls.all < MaxCalls

\* a matchmaking request is admitted
MatchmakingCall ==
  /\ calls.all < MaxCalls
  /\ calls.mm < MaxMatchmakingCalls
  /\ calls' = [all |-> calls.all + 1, mm |-> calls.mm + 1]

Respond(route, matchId, code, seen) ==
  response' = [route |-> route, matchId |-> matchId, code |-> code, seen |-> seen,
               candidates |-> <<>>]

(***************************************************************************)
(* POST /api/matches/report-result                                         *)
(***************************************************************************)
\* the first SELECT without its status condition
ReportSelectableAnyStatus(row, userId) ==
  row.player1_id = userId \/ row.player2_id = userId

\* the WHERE clause without the condition on the two players
ReportSelectableAnyUser(row, userId) ==
  row.status = "confirmed"

\* the WHERE clause of the handler's first SELECT
ReportSelectable(row, userId) ==
  /\ row.player1_id = userId \/ row.player2_id = userId
  /\ row.status = "confirmed"

\* what the handler answers before writing anything: 404, 400 or 0 (go on)
ReportRejection(found, row, userId) ==
  IF ~found THEN 404
  ELSE IF (IF row.player1_id = userId THEN row.player1_result
           ELSE row.player2_result) # NoResult
       THEN 400
       ELSE 0

\* SELECT the match, check existingResult
ReportSelect(p, userId, matchId, result) ==
  /\ FreeSlot(p)
  /\ LET exists == matchId \in 1..Len(matches)
         found  == exists /\ ReportSelectable(matches[matchId], userId)
         row    == IF exists THEN matches[matchId] ELSE NoLocals.match
         code   == IF ~users[userId].is_verified THEN 403
                   ELSE ReportRejection(found, row, userId)
     IN  IF code # 0
         THEN /\ Respond("report", matchId, code, StatusOf(matchId))
              /\ procs' = procs
         ELSE /\ procs' = [procs EXCEPT ![p] =
                   [IdleProc EXCEPT !.pc = "update", !.matchId = matchId,
                      !.user = userId, !.result = result,
                      !.isPlayer1 = (row.player1_id = userId)]]
              /\ response' = response
  /\ calls' = [calls EXCEPT !.all = @ + 1]
  /\ UNCHANGED <<engine, search, users, profiles, matches, requests, audit>>

\* UPDATE matches SET <resultField> = result WHERE id = matchId
ReportUpdate(p) ==
  /\ procs[p].pc = "update"
  /\ LET l == procs[p]
     IN  matches' = IF l.isPlayer1
                    THEN [matches EXCEPT ![l.matchId].player1_result = l.result]
                    ELSE [matches EXCEPT ![l.matchId].player2_result = l.result]
  /\ audit' = IF procs[p].isPlayer1
              THEN [audit EXCEPT ![procs[p].matchId].writes1 = @ + 1]
              ELSE [audit EXCEPT ![procs[p].matchId].writes2 = @ + 1]
  /\ procs' = [procs EXCEPT ![p].pc = "reselect"]
  /\ UNCHANGED <<engine, search, users, profiles, requests, calls, response>>

\* SELECT player1_result, player2_result; call processMatchResult when both are set
ReportReselect(p) ==
  /\ procs[p].pc = "reselect"
  /\ LET l   == procs[p]
         row == matches[l.matchId]
     IN  IF row.player1_result # NoResult /\ row.player2_result # NoResult
         THEN /\ procs' = [procs EXCEPT ![p].pc = "process",
                             ![p].player1Result = row.player1_result,
                             ![p].player2Result = row.player2_result]
              /\ response' = response
         ELSE /\ procs' = [procs EXCEPT ![p] = IdleProc]
              /\ Respond("report", l.matchId, 200, "confirmed")
  /\ UNCHANGED <<engine, search, users, profiles, matches, requests, calls, audit>>

(***************************************************************************)
(* processMatchResult                                                      *)
(***************************************************************************)
\* the outcome taken from player 1's report alone
EloResultPlayer1Only(player1Result, player2Result) ==
  IF player1Result = "win" THEN "player1_win"
  ELSE IF player1Result = "loss" THEN "player2_win"
  ELSE "draw"

\* the Elo outcome of a pair of reports, "dispute" when they do not agree
EloResult(player1Result, player2Result) ==
  IF player1Result = "win" /\ player2Result = "loss" THEN "player1_win"
  ELSE IF player1Result = "loss" /\ player2Result = "win" THEN "player2_win"
  ELSE IF player1Result = "draw" /\ player2Result = "draw" THEN "draw"
  ELSE "dispute"

\* SELECT the match with both players' rating and games_played, decide the
\* outcome and compute the rating changes
ProcessSelect(p) ==
  /\ procs[p].pc = "process"
  /\ LET l     == procs[p]
         row   == matches[l.matchId]
         pp1   == profiles[row.player1_id][row.sport_id]
         pp2   == profiles[row.player2_id][row.sport_id]
         eloResult == EloResult(l.player1Result, l.player2Result)
     IN  IF eloResult = "dispute"
         THEN /\ procs' = [procs EXCEPT ![p].pc = "dispute"]
              /\ audit' = audit
         ELSE /\ procs' = [procs EXCEPT ![p].pc = "complete",
                   ![p].match = [row EXCEPT !.player1_rating_before = pp1.rating,
                                            !.player2_rating_before = pp2.rating],
                   ![p].ratingChanges = calculateRatingChanges(
                       [rating |-> pp1.rating, gamesPlayed |-> pp1.games_played],
                       [rating |-> pp2.rating, gamesPlayed |-> pp2.games_played],
                       eloResult)]
              /\ audit' = [audit EXCEPT ![l.matchId].elo = @ + 1]
  /\ UNCHANGED <<engine, search, users, profiles, matches, requests, calls, response>>

\* UPDATE matches SET status = 'disputed' WHERE id = matchId; return
ProcessDispute(p) ==
  /\ procs[p].pc = "dispute"
  /\ LET l == procs[p]
     IN  /\ matches' = [matches EXCEPT ![l.matchId].status = "disputed"]
         /\ Respond("report", l.matchId, 200, "confirmed")
  /\ procs' = [procs EXCEPT ![p] = IdleProc]
  /\ UNCHANGED <<engine, search, users, profiles, requests, calls, audit>>

\* UPDATE matches SET status = 'completed', the six rating columns
ProcessComplete(p) ==
  /\ procs[p].pc = "complete"
  /\ LET l  == procs[p]
         rc == l.ratingChanges
     IN  /\ matches' = [matches EXCEPT ![l.matchId] =
               [@ EXCEPT !.status = "completed",
                  !.player1_rating_before = l.match.player1_rating_before,
                  !.player2_rating_before = l.match.player2_rating_before,
                  !.player1_rating_after = rc.player1.newRating,
                  !.player2_rating_after = rc.player2.newRating,
                  !.rating_change_player1 = rc.player1.ratingChange,
                  !.rating_change_player2 = rc.player2.ratingChange]]
         /\ audit' = [audit EXCEPT ![l.matchId].completed = @ + 1]
  /\ procs' = [procs EXCEPT ![p].pc = "profiles", ![p].pending = {1, 2}]
  /\ UNCHANGED <<engine, search, users, profiles, requests, calls, response>>

\* the profile UPDATE with games_played = 1 in place of games_played + 1
UpdatedProfileGamesReset(row, newRating, result) ==
  [row EXCEPT !.rating = newRating,
              !.games_played = 1,
              !.wins = @ + (IF result = "win" THEN 1 ELSE 0),
              !.losses = @ + (IF result = "loss" THEN 1 ELSE 0),
              !.draws = @ + (IF result = "draw" THEN 1 ELSE 0)]

\* the profile UPDATE counting a draw as nothing
UpdatedProfileNoDraws(row, newRating, result) ==
  [row EXCEPT !.rating = newRating,
              !.games_played = @ + 1,
              !.wins = @ + (IF result = "win" THEN 1 ELSE 0),
              !.losses = @ + (IF result = "loss" THEN 1 ELSE 0)]

\* one UPDATE player_profiles of the Promise.all pair
UpdatedProfile(row, newRating, result) ==
  [row EXCEPT !.rating = newRating,
              !.games_played = @ + 1,
              !.wins = @ + (IF result = "win" THEN 1 ELSE 0),
              !.losses = @ + (IF result = "loss" THEN 1 ELSE 0),
              !.draws = @ + (IF result = "draw" THEN 1 ELSE 0)]

\* the two profile UPDATEs are issued together and run in either order
ProcessProfile(p, side) ==
  /\ procs[p].pc = "profiles"
  /\ side \in procs[p].pending
  /\ LET l  == procs[p]
         rc == l.ratingChanges
         u  == IF side = 1 THEN l.match.player1_id ELSE l.match.player2_id
         nr == IF side = 1 THEN rc.player1.newRating ELSE rc.player2.newRating
         rs == IF side = 1 THEN l.player1Result ELSE l.player2Result
     IN  /\ profiles' = [profiles EXCEPT ![u][l.match.sport_id] =
                            UpdatedProfile(@, nr, rs)]
         /\ audit' = IF side = 1
                     THEN [audit EXCEPT ![l.matchId].credit1 = @ + 1]
                     ELSE [audit EXCEPT ![l.matchId].credit2 = @ + 1]
         /\ IF l.pending = {side}
            THEN /\ procs' = [procs EXCEPT ![p] = IdleProc]
                 /\ Respond("report", l.matchId, 200, "confirmed")
            ELSE /\ procs' = [procs EXCEPT ![p].pending = @ \ {side}]
                 /\ response' = response
  /\ UNCHANGED <<engine, search, users, matches, requests, calls>>

(***************************************************************************)
(* POST /api/matches/:id/cancel                                            *)
(***************************************************************************)
\* the cancel UPDATE without its status condition
CancellableAnyStatus(row, userId) ==
  row.player1_id = userId \/ row.player2_id = userId

\* the WHERE clause of the cancel UPDATE
Cancellable(row, userId) ==
  /\ row.player1_id = userId \/ row.player2_id = userId
  /\ row.status = "confirmed"

\* UPDATE ... SET status = 'cancelled' WHERE ... RETURNING *: one statement
CancelMatch(userId, matchId) ==
  /\ calls.all < MaxCalls
  /\ calls' = [calls EXCEPT !.all = @ + 1]
  /\ IF matchId \in 1..Len(matches) /\ Cancellable(matches[matchId], userId)
     THEN /\ matches' = [matches EXCEPT ![matchId].status = "cancelled"]
          /\ Respond("cancel", matchId, 200, StatusOf(matchId))
     ELSE /\ matches' = matches
          /\ Respond("cancel", matchId, 404, StatusOf(matchId))
  /\ UNCHANGED <<engine, search, users, profiles, requests, procs, audit>>

(***************************************************************************)
(* findMatchCandidates.  The statement is modelled with its placeholders   *)
(* bound by position, as the driver binds them: $n is queryParams[n].      *)
(* Numeric parameters are in hundredths, like the ratings.                 *)
(***************************************************************************)
\* ST_Distance between two stored points, in metres
Distance(a, b) == 100 * (Abs(a.lon - b.lon) + Abs(a.lat - b.lat))

\* queryParams after the rating-filter branch has pushed its two values
QueryParams(userId, sportId, userLocation, userRating, maxDistanceKm, minRating, maxRating, maxRatingDiff) ==
  <<userId, sportId, userLocation.lon * Cents, userLocation.lat * Cents,
    maxDistanceKm * 1000 * Cents>>
  \o (IF minRating # Null /\ maxRating # Null
      THEN <<minRating, maxRating>>
      ELSE <<userRating, maxRatingDiff>>)

\* a parameter as the statement receives it: undefined is sent as NULL
Bound(v) == IF v = Undefined THEN Null ELSE v

\* ratingFilter: paramCount starts at 5, so the two placeholders are $5 and $6
RatingFilter(rating, queryParams, minRating, maxRating) ==
  LET a == Bound(queryParams[5])
      b == Bound(queryParams[6])
  IN  IF minRating # Null /\ maxRating # Null
      THEN a # Null /\ b # Null /\ a <= rating /\ rating <= b
      ELSE a # Null /\ b # Null /\ Abs(rating - a) <= b

\* the subquery without mr.sport_id = $2
HasActiveRequestAnySport(userId, sportId) ==
  \E i \in 1..Len(requests) :
    /\ requests[i].requester_id = userId
    /\ requests[i].status = "active"

\* NOT EXISTS (an active match request of the candidate for the sport)
HasActiveRequest(userId, sportId) ==
  \E i \in 1..Len(requests) :
    /\ requests[i].requester_id = userId
    /\ requests[i].sport_id = sportId
    /\ requests[i].status = "active"

\* the WHERE clause without pp.user_id != $1
CandidateUsersWithSelf(queryParams, userLocation, maxDistanceKm, minRating, maxRating) ==
  {u \in DOMAIN users :
     /\ queryParams[2] \in Sports
     /\ profiles[u][queryParams[2]].is_active
     /\ users[u].is_verified
     /\ users[u].location # NoLocation
     /\ Distance(users[u].location, userLocation) * Cents <= queryParams[5]
     /\ RatingFilter(profiles[u][queryParams[2]].rating, queryParams,
                     minRating, maxRating)
     /\ \A i \in 1..Len(requests) :
          ~(/\ requests[i].requester_id = u
            /\ requests[i].sport_id = queryParams[2]
            /\ requests[i].status = "active")}

\* the WHERE clause
CandidateUsers(queryParams, userLocation, maxDistanceKm, minRating, maxRating) ==
  {u \in DOMAIN users :
     /\ queryParams[2] \in Sports
     /\ u # queryParams[1]
     /\ profiles[u][queryParams[2]].is_active
     /\ users[u].is_verified
     /\ users[u].location # NoLocation
     /\ Distance(users[u].location, userLocation) * Cents <= queryParams[5]
     /\ RatingFilter(profiles[u][queryParams[2]].rating, queryParams,
                     minRating, maxRating)
     /\ ~HasActiveRequest(u, queryParams[2])}

\* the CASE of the ORDER BY: closeness of the rating to $4
Tier(rating, queryParams) ==
  IF Abs(rating - queryParams[4]) <= 100 * Cents THEN 1
  ELSE IF Abs(rating - queryParams[4]) <= 200 * Cents THEN 2
  ELSE 3

\* a returned row, as result.rows.map builds it (distance in hundredths of km)
CandidateRow(u, sportId, userLocation) ==
  [userId |-> u,
   rating |-> profiles[u][sportId].rating,
   gamesPlayed |-> profiles[u][sportId].games_played,
   distance |-> (Distance(users[u].location, userLocation) + 5) \div 10]

\* the rows of S that may come first: no row has a smaller (tier, distance)
FirstRows(S, queryParams, userLocation) ==
  {u \in S :
     \A v \in S :
       LET tu == Tier(profiles[u][queryParams[2]].rating, queryParams)
           tv == Tier(profiles[v][queryParams[2]].rating, queryParams)
           du == Distance(users[u].location, userLocation)
           dv == Distance(users[v].location, userLocation)
       IN  tu < tv \/ (tu = tv /\ du <= dv)}

\* the orders the store may return S in: ascending (tier, distance), ties in any order
RECURSIVE OrderedBy(_, _, _)
OrderedBy(S, queryParams, userLocation) ==
  IF S = {} THEN {<<>>}
  ELSE UNION {{<<u>> \o rest : rest \in OrderedBy(S \ {u}, queryParams, userLocation)} :
                u \in FirstRows(S, queryParams, userLocation)}

\* LIMIT 10
Limit == 10

\* the lists result.rows.map may build when the candidate query runs
ResultRows(userId, sportId, userRating, maxDistanceKm, minRating, maxRating, maxRatingDiff) ==
  LET userLocation == users[userId].location
      queryParams  == QueryParams(userId, sportId, userLocation, userRating,
                        maxDistanceKm, minRating, maxRating, maxRatingDiff)
      S == CandidateUsers(queryParams, userLocation, maxDistanceKm,
                          minRating, maxRating)
  IN  {[i \in 1..(IF Cardinality(S) < Limit THEN Cardinality(S) ELSE Limit) |->
          CandidateRow(f[i], sportId, userLocation)] :
       f \in OrderedBy(S, queryParams, userLocation)}

\* the set of lists the call may return: [] without a primary location, the
\* rows of the candidate query, or [] from the catch when a query is rejected
findMatchCandidates(userId, sportId, userRating, maxDistanceKm, minRating, maxRating, maxRatingDiff) ==
  IF users[userId].location = NoLocation THEN {<<>>}
  ELSE ResultRows(userId, sportId, userRating, maxDistanceKm, minRating,
                  maxRating, maxRatingDiff) \cup {<<>>}

(***************************************************************************)
(* POST /api/matchmaking/request                                           *)
(***************************************************************************)
RequestPcs == {"cancelOld", "insert", "find", "createMatch", "markMatched"}

InFlightRequests == Cardinality({q \in Procs : procs[q].pc \in RequestPcs})

\* what the handler answers before writing anything: 403, 404, 400 or 0 (go on)
RequestRejection(userId, sportId) ==
  IF ~users[userId].is_verified THEN 403
  ELSE IF sportId \notin Sports THEN 404
  ELSE IF ~profiles[userId][sportId].is_active THEN 400
  ELSE IF users[userId].location = NoLocation THEN 400
  ELSE 0

\* the three SELECTs: sport, profile (rating, games_played), location
RequestValidate(p, userId, sportId, maxDistanceKm, minRating, maxRating) ==
  /\ FreeSlot(p)
  /\ Len(matches) + InFlightRequests < MaxMatches
  /\ Len(requests) + InFlightRequests < MaxRequests
  /\ LET code == RequestRejection(userId, sportId)
     IN  IF code # 0
         THEN /\ Respond("request", 0, code, "none")
              /\ procs' = procs
         ELSE /\ procs' = [procs EXCEPT ![p] =
                   [IdleProc EXCEPT !.pc = "cancelOld", !.user = userId,
                      !.sportId = sportId,
                      !.userRating = profiles[userId][sportId].rating,
                      !.maxDistanceKm = maxDistanceKm,
                      !.minRating = minRating, !.maxRating = maxRating]]
              /\ response' = response
  /\ MatchmakingCall
  /\ UNCHANGED <<engine, search, users, profiles, matches, requests, audit>>

\* UPDATE match_requests SET status = 'cancelled' WHERE requester, sport, active
RequestCancelOld(p) ==
  /\ procs[p].pc = "cancelOld"
  /\ LET l == procs[p]
     IN  requests' = [i \in 1..Len(requests) |->
            IF /\ requests[i].requester_id = l.user
               /\ requests[i].sport_id = l.sportId
               /\ requests[i].status = "active"
            THEN [requests[i] EXCEPT !.status = "cancelled"]
            ELSE requests[i]]
  /\ procs' = [procs EXCEPT ![p].pc = "insert"]
  /\ UNCHANGED <<engine, search, users, profiles, matches, calls, response, audit>>

\* INSERT INTO match_requests ... RETURNING *
RequestInsert(p) ==
  /\ procs[p].pc = "insert"
  /\ LET l == procs[p]
     IN  /\ requests' = Append(requests,
               NewRequestRow(l.user, l.sportId, l.maxDistanceKm,
                             l.minRating, l.maxRating))
         /\ procs' = [procs EXCEPT ![p].pc = "find",
                                   ![p].requestId = Len(requests) + 1]
  /\ UNCHANGED <<engine, search, users, profiles, matches, calls, response, audit>>

\* findMatchCandidates; answer when the list is empty, else keep candidates[0]
RequestFind(p) ==
  /\ procs[p].pc = "find"
  /\ LET l == procs[p]
     IN  \E candidates \in findMatchCandidates(l.user, l.sportId, l.userRating,
                              l.maxDistanceKm, l.minRating, l.maxRating, 200 * Cents) :
           IF Len(candidates) > 0
           THEN /\ procs' = [procs EXCEPT ![p].pc = "createMatch",
                                ![p].bestCandidate = candidates[1].userId]
                /\ response' = response
           ELSE /\ procs' = [procs EXCEPT ![p] = IdleProc]
                /\ Respond("request", 0, 200, "active")
  /\ UNCHANGED <<engine, search, users, profiles, matches, requests, calls, audit>>

\* createMatch with the two players exchanged
createMatchSwapped(p) ==
  /\ procs[p].pc = "createMatch"
  /\ LET l == procs[p]
     IN  matches' = Append(matches,
            NewMatchRow(l.bestCandidate, l.user, l.sportId, "confirmed"))
  /\ procs' = [procs EXCEPT ![p].pc = "markMatched"]
  /\ UNCHANGED <<engine, search, users, profiles, requests, calls, response, audit>>

\* createMatch: INSERT INTO matches ... 'confirmed'
createMatch(p) ==
  /\ procs[p].pc = "createMatch"
  /\ LET l == procs[p]
     IN  matches' = Append(matches,
            NewMatchRow(l.user, l.bestCandidate, l.sportId, "confirmed"))
  /\ procs' = [procs EXCEPT ![p].pc = "markMatched"]
  /\ UNCHANGED <<engine, search, users, profiles, requests, calls, response, audit>>

\* UPDATE match_requests SET status = 'matched', matched_with_user_id
RequestMarkMatched(p) ==
  /\ procs[p].pc = "markMatched"
  /\ LET l == procs[p]
     IN  /\ requests' = [requests EXCEPT ![l.requestId].status = "matched",
                            ![l.requestId].matched_with_user_id = l.bestCandidate]
         /\ Respond("request", 0, 200, "matched")
  /\ procs' = [procs EXCEPT ![p] = IdleProc]
  /\ UNCHANGED <<engine, search, users, profiles, matches, calls, audit>>

(***************************************************************************)
(* GET /api/matchmaking/candidates                                         *)
(***************************************************************************)
\* the two SELECTs issued together: profile and location
CandidatesRead(p, userId, sportId, maxDistance, maxRatingDiff) ==
  /\ FreeSlot(p)
  /\ LET code == RequestRejection(userId, sportId)
     IN  IF code # 0
         THEN /\ Respond("candidates", 0, IF code = 404 THEN 400 ELSE code, "none")
              /\ procs' = procs
         ELSE /\ procs' = [procs EXCEPT ![p] =
                   [IdleProc EXCEPT !.pc = "candidates", !.user = userId,
                      !.sportId = sportId,
                      !.userRating = profiles[userId][sportId].rating,
                      !.maxDistanceKm = maxDistance,
                      !.maxRatingDiff = maxRatingDiff]]
              /\ response' = response
  /\ MatchmakingCall
  /\ UNCHANGED <<engine, search, users, profiles, matches, requests, audit>>

\* findMatchCandidates(..., null, null, maxRatingDiff); res.json({ candidates })
CandidatesQuery(p) ==
  /\ procs[p].pc = "candidates"
  /\ LET l == procs[p]
     IN  \E candidates \in findMatchCandidates(l.user, l.sportId, l.userRating,
                              l.maxDistanceKm, Null, Null, l.maxRatingDiff) :
           response' = [route |-> "candidates", matchId |-> 0, code |-> 200,
                        seen |-> "none", candidates |-> candidates]
  /\ procs' = [procs EXCEPT ![p] = IdleProc]
  /\ UNCHANGED <<engine, search, users, profiles, matches, requests, calls, audit>>

(***************************************************************************)
(* DELETE /api/matchmaking/requests/:id                                    *)
(***************************************************************************)
\* UPDATE match_requests SET status = 'cancelled' WHERE id, requester, active
CancelRequest(userId, requestId) ==
  /\ MatchmakingCall
  /\ IF /\ requestId \in 1..Len(requests)
        /\ requests[requestId].requester_id = userId
        /\ requests[requestId].status = "active"
     THEN /\ requests' = [requests EXCEPT ![requestId].status = "cancelled"]
          /\ Respond("cancelRequest", 0, 200, "active")
     ELSE /\ requests' = requests
          /\ Respond("cancelRequest", 0, 404, "none")
  /\ UNCHANGED <<engine, search, users, profiles, matches, procs, audit>>

(***************************************************************************)
(* The requests a client may send.                                         *)
(***************************************************************************)
\* the users who send /request; the third user is only ever a candidate
Requesters == {1, 2}
\* maxDistanceKm values sent
DistanceChoices == {1, 10}
\* (maxDistanceKm, minRating, maxRating) sent to /request: a band left out, or
\* an explicit one
RequestChoices == {<<10, Undefined, Undefined>>, <<1, 1600 * Cents, 1800 * Cents>>}

RequestStep(p) ==
  \/ \E u \in Requesters, s \in SentSports, c \in RequestChoices :
       RequestValidate(p, u, s, c[1], c[2], c[3])
  \/ RequestCancelOld(p)
  \/ RequestInsert(p)
  \/ RequestFind(p)
  \/ createMatch(p)
  \/ RequestMarkMatched(p)

CandidatesStep(p) ==
  \/ \E u \in Users, s \in SentSports, d \in DistanceChoices :
       CandidatesRead(p, u, s, d, 200 * Cents)
  \/ CandidatesQuery(p)

ReportStep(p) ==
  \/ \E u \in Users, m \in SentMatchIds, r \in Results : ReportSelect(p, u, m, r)
  \/ ReportUpdate(p)
  \/ ReportReselect(p)
  \/ ProcessSelect(p)
  \/ ProcessDispute(p)
  \/ ProcessComplete(p)
  \/ \E side \in {1, 2} : ProcessProfile(p, side)

MatchNext ==
  \/ \E p \in Procs : ReportStep(p)
  \/ \E u \in Users, m \in SentMatchIds : CancelMatch(u, m)

Next ==
  \/ MatchNext
  \/ \E p \in Procs : RequestStep(p)
  \/ \E p \in Procs : CandidatesStep(p)
  \/ \E u \in Users, r \in SentRequestIds : CancelRequest(u, r)

Spec == Init /\ [][Next]_vars

\* a handler that has started runs its next statement once the awaited query
\* has resolved
Continue(p) ==
  /\ procs[p].pc # "idle"
  /\ (ReportStep(p) \/ RequestStep(p) \/ CandidatesStep(p))

\* the server with every started handler running to its end
SpecLive == Init /\ [][Next]_vars /\ \A p \in Procs : WF_vars(Continue(p))

\* the store once a match between users 1 and 2 exists: createMatch has
\* inserted it as confirmed, or it was inserted with the column default
InitMatch ==
  /\ engine = NoEngine
  /\ search = NoSearch
  /\ users = InitUsers
  /\ profiles = InitProfiles
  /\ requests = <<>>
  /\ matches \in {<<NewMatchRow(1, 2, 1, st)>> : st \in {"confirmed", "pending"}}
  /\ procs = [p \in Procs |-> IdleProc]
  /\ calls = [all |-> 0, mm |-> 0]
  /\ response = NoResponse
  /\ audit = [m \in MatchIds |-> NoAudit]

\* the report and cancel handlers on their own
SpecMatch == InitMatch /\ [][MatchNext]_vars

\* two confirmed matches that share user 1 as player 1, against users 2 and 3;
\* user 1 has reported a win in both
InitShared ==
  /\ engine = NoEngine
  /\ search = NoSearch
  /\ users = InitUsers
  /\ profiles = InitProfiles
  /\ requests = <<>>
  /\ matches = <<[NewMatchRow(1, 2, 1, "confirmed") EXCEPT !.player1_result = "win"],
                 [NewMatchRow(1, 3, 1, "confirmed") EXCEPT !.player1_result = "win"]>>
  /\ procs = [p \in Procs |-> IdleProc]
  /\ calls = [all |-> 0, mm |-> 0]
  /\ response = NoResponse
  /\ audit = [m \in MatchIds |-> [NoAudit EXCEPT !.writes1 = 1]]

\* the report and cancel handlers over the two matches
SpecShared == InitShared /\ [][MatchNext]_vars

\* the profiles with the stored rating of one participant not a number
TaintedProfiles(u) ==
  [InitProfiles EXCEPT ![u] = [s \in Sports |-> [InitProfiles[u][s] EXCEPT !.rating = NaN]]]

\* a confirmed match between users 1 and 2, one of whom has a stored rating
\* that is not a number
InitTainted ==
  /\ engine = NoEngine
  /\ search = NoSearch
  /\ users = InitUsers
  /\ profiles \in {TaintedProfiles(u) : u \in {1, 2}}
  /\ requests = <<>>
  /\ matches = <<NewMatchRow(1, 2, 1, "confirmed")>>
  /\ procs = [p \in Procs |-> IdleProc]
  /\ calls = [all |-> 0, mm |-> 0]
  /\ response = NoResponse
  /\ audit = [m \in MatchIds |-> NoAudit]

\* the report and cancel handlers over such a store
SpecTainted == InitTainted /\ [][MatchNext]_vars

(***************************************************************************)
(* The rating engine on its own: calculateRatingChanges applied to         *)
(* arguments drawn from bounded sets.                                      *)
(***************************************************************************)
\* ratings of the players passed in, in hundredths
RatingChoices == {1500 * Cents, 1516 * Cents, 148437, 188437}
\* the outcome strings passed in
OutcomeChoices == Outcomes \cup {"invalid"}

\* the arguments are drawn, the call has not been made
InitElo ==
  /\ engine \in {[NoEngine EXCEPT !.player1 = [rating |-> r1, gamesPlayed |-> g1],
                                   !.player2 = [rating |-> r2, gamesPlayed |-> g2],
                                   !.result = result] :
                   r1 \in RatingChoices, r2 \in RatingChoices,
                   g1 \in 0..MaxGames, g2 \in 0..MaxGames,
                   result \in OutcomeChoices}
  /\ search = NoSearch
  /\ users = InitUsers
  /\ profiles = InitProfiles
  /\ requests = <<>>
  /\ matches = <<>>
  /\ procs = [p \in Procs |-> IdleProc]
  /\ calls = [all |-> 0, mm |-> 0]
  /\ response = NoResponse
  /\ audit = [m \in MatchIds |-> NoAudit]

EloCall ==
  /\ ~engine.called
  /\ engine' = [engine EXCEPT !.called = TRUE,
                  !.returned = calculateRatingChanges(engine.player1,
                                  engine.player2, engine.result)]
  /\ UNCHANGED <<search, users, profiles, matches, requests, procs, calls, response, audit>>

NextElo == EloCall

SpecElo == InitElo /\ [][NextElo]_vars

(***************************************************************************)
(* The candidate search on its own: findMatchCandidates applied to a       *)
(* stored population and arguments drawn from bounded sets.                *)
(***************************************************************************)
\* ratings of the stored players, in rating points, by player id
RosterRatings == <<1500, 1516, 1484, 1700, 1300, 1601, 1399, 1650, 1720, 1400, 1550, 1450>>

\* what is stored about a player besides the rating: the profile switched off,
\* the user not verified, no primary location, or a match request of the
\* player (active, cancelled or matched for the sport, or active for another)
Conditions == {"none", "inactive", "unverified", "nolocation",
               "active", "cancelled", "matched", "otherSport"}

\* the users and user_locations rows of n players living along one street
RosterUsers(n, cond) ==
  [u \in 1..n |->
     [is_verified |-> cond[u] # "unverified",
      location |-> IF cond[u] = "nolocation" THEN NoLocation
                   ELSE [lon |-> u - 1, lat |-> 120]]]

\* their player_profiles rows
RosterProfiles(n, cond) ==
  [u \in 1..n |->
     [s \in Sports |->
        [ProfileRow(RosterRatings[((u - 1) % Len(RosterRatings)) + 1] * Cents, u, 0, 0)
           EXCEPT !.is_active = (cond[u] # "inactive")]]]

\* the match_requests row a player's condition stands for
RosterRequest(u, c) ==
  [NewRequestRow(u, IF c = "otherSport" THEN 2 ELSE 1, 10, Undefined, Undefined)
     EXCEPT !.status = IF c \in {"cancelled", "matched"} THEN c ELSE "active",
            !.matched_with_user_id = IF c = "matched" THEN 1 ELSE 0]

RequestConditions == {"active", "cancelled", "matched", "otherSport"}

\* (minRating, maxRating) as the callers pass them: null from /candidates,
\* undefined or two numbers from /request
BandArguments == {<<Null, Null>>, <<Undefined, Undefined>>,
                  <<1400 * Cents, 1600 * Cents>>, <<1600 * Cents, 1800 * Cents>>}
\* maxDistanceKm as the callers pass it
DistanceArguments == {1, 2, 10}

\* the population is stored and the arguments are drawn, the call has not been made
InitFind ==
  /\ engine = NoEngine
  /\ \E n \in 3..MaxPlayers, c2 \in Conditions, c3 \in Conditions :
       LET cond == [u \in 1..n |-> IF u = 2 THEN c2 ELSE IF u = 3 THEN c3 ELSE "none"]
       IN  /\ users = RosterUsers(n, cond)
           /\ profiles = RosterProfiles(n, cond)
           /\ requests =
                (IF c2 \in RequestConditions THEN <<RosterRequest(2, c2)>> ELSE <<>>)
                  \o (IF c3 \in RequestConditions THEN <<RosterRequest(3, c3)>> ELSE <<>>)
           /\ \E userId \in {1, 2}, sportId \in SentSports, d \in DistanceArguments, b \in BandArguments :
                search = [NoSearch EXCEPT !.userId = userId, !.sportId = sportId,
                            !.userRating = RosterProfiles(n, cond)[userId][sportId].rating,
                            !.maxDistanceKm = d,
                            !.minRating = b[1], !.maxRating = b[2],
                            !.maxRatingDiff = 200 * Cents]
  /\ matches = <<>>
  /\ procs = [p \in Procs |-> IdleProc]
  /\ calls = [all |-> 0, mm |-> 0]
  /\ response = NoResponse
  /\ audit = [m \in MatchIds |-> NoAudit]

\* the call: one of the lists it may return; failed when the list is the
\* catch's [] and not what the candidate query selects
FindCall ==
  /\ ~search.called
  /\ \E list \in findMatchCandidates(search.userId, search.sportId, search.userRating,
                     search.maxDistanceKm, search.minRating, search.maxRating,
                     search.maxRatingDiff) :
       search' = [search EXCEPT
                    !.called = TRUE,
                    !.returned = list,
                    !.failed = /\ users[search.userId].location # NoLocation
                               /\ list \notin ResultRows(search.userId, search.sportId,
                                     search.userRating, search.maxDistanceKm,
                                     search.minRating, search.maxRating,
                                     search.maxRatingDiff)]
  /\ UNCHANGED <<engine, users, profiles, matches, requests, procs, calls, response, audit>>

NextFind == FindCall

SpecFind == InitFind /\ [][NextFind]_vars

(***************************************************************************)
(* Properties.                                                             *)
(***************************************************************************)
\* pairs of reports that agree on the outcome
ConsistentPairs == {<<"win", "loss">>, <<"loss", "win">>, <<"draw", "draw">>}

Rows == 1..Len(matches)

\* C1: when each participant of a match sends one report, whatever the
\* interleaving of the two handlers, the match is finalized at most once: one
\* rating computation, one transition to completed, and one games_played
\* increment per participant.
C1_FinalizedAtMostOnce ==
  \A m \in MatchIds :
    (audit[m].writes1 <= 1 /\ audit[m].writes2 <= 1) =>
      /\ audit[m].elo <= 1
      /\ audit[m].completed <= 1
      /\ audit[m].credit1 <= 1
      /\ audit[m].credit2 <= 1

\* C2: in every reachable state a completed match stores a consistent pair of
\* results: (win, loss), (loss, win) or (draw, draw).
C2_CompletedConsistent ==
  \A m \in Rows :
    matches[m].status = "completed" =>
      <<matches[m].player1_result, matches[m].player2_result>> \in ConsistentPairs

\* C3: when processMatchResult is given a pair of reports that do not agree, it
\* sets the match to disputed and does nothing else: no rating computation, no
\* change to any profile row, no change to the match's rating columns.
C3_DisputeLeavesRatings ==
  [][\A p \in Procs :
       LET l == procs[p]
           inconsistent == <<l.player1Result, l.player2Result>> \notin ConsistentPairs
       IN  /\ (l.pc = "process" /\ inconsistent /\ procs'[p] # l) =>
                /\ procs'[p].pc = "dispute"
                /\ UNCHANGED <<profiles, matches, audit>>
           /\ (l.pc = "dispute" /\ procs'[p] # l) =>
                /\ matches' = [matches EXCEPT ![l.matchId].status = "disputed"]
                /\ procs'[p].pc = "idle"
                /\ UNCHANGED <<profiles, audit>>]_vars

\* a report was answered for a disputed match whose ratings nobody touched
C3_Witness ==
  \E m \in Rows :
    /\ matches[m].status = "disputed"
    /\ <<matches[m].player1_result, matches[m].player2_result>> \notin ConsistentPairs
    /\ matches[m].player1_result # NoResult /\ matches[m].player2_result # NoResult
    /\ audit[m].elo = 0
    /\ profiles = InitProfiles
    /\ matches[m].player1_rating_after = Null
    /\ response.route = "report" /\ response.code = 200

\* C4: a report sent for a match that is already completed is rejected with
\* 404 before it writes anything: the match rows, the profiles and the count of
\* rating computations stay as they are.
C4_ResubmitRejected ==
  [][\A m \in Rows :
       matches[m].status = "completed" =>
         /\ \A p \in Procs :
              procs[p].pc = "idle" =>
                ~(procs'[p].pc = "update" /\ procs'[p].matchId = m)
         /\ (/\ calls' # calls
             /\ procs' = procs
             /\ response'.route = "report"
             /\ response'.matchId = m) =>
              /\ response'.code = 404
              /\ UNCHANGED <<matches, profiles, audit>>]_vars

\* a report sent after (win, loss) completed the match was answered 404, with
\* the rating computed once
C4_Witness ==
  \E m \in Rows :
    /\ matches[m].status = "completed"
    /\ matches[m].player1_result = "win"
    /\ matches[m].player2_result = "loss"
    /\ audit[m].elo = 1 /\ audit[m].credit1 = 1 /\ audit[m].credit2 = 1
    /\ response.route = "report"
    /\ response.matchId = m
    /\ response.seen = "completed"
    /\ response.code = 404

\* C5: there is no reachable state in which a match is completed while a
\* participant's profile row has not received the update for that match.
C5_CompletedWithProfiles ==
  \A m \in Rows :
    matches[m].status = "completed" =>
      audit[m].credit1 >= 1 /\ audit[m].credit2 >= 1

\* C6: a cancel request succeeds only on a confirmed match; on a completed,
\* disputed, cancelled or pending match it is answered 404 and no match row
\* changes.
C6_CancelOnlyConfirmed ==
  [][(calls' # calls /\ response'.route = "cancel") =>
       LET m  == response'.matchId
           st == StatusOf(m)
       IN  /\ response'.code = 200 =>
                /\ st = "confirmed"
                /\ matches' = [matches EXCEPT ![m].status = "cancelled"]
           /\ st \in {"completed", "disputed", "cancelled", "pending"} =>
                /\ response'.code = 404
                /\ matches' = matches]_vars

\* a cancel of a completed match was answered 404
C6_Witness ==
  /\ response.route = "cancel"
  /\ response.code = 404
  /\ response.seen = "completed"
  /\ response.matchId \in Rows
  /\ matches[response.matchId].status = "completed"

\* C7: once a participant's result field is set it keeps its first value:
\* every later report by that participant is rejected.
C7_FirstReportKept ==
  [][\A m \in Rows :
       /\ matches[m].player1_result # NoResult =>
            /\ matches'[m].player1_result = matches[m].player1_result
            /\ audit'[m].writes1 = audit[m].writes1
       /\ matches[m].player2_result # NoResult =>
            /\ matches'[m].player2_result = matches[m].player2_result
            /\ audit'[m].writes2 = audit[m].writes2]_vars

\* the edges of the match state machine
StatusEdges ==
  {<<"pending", "confirmed">>, <<"confirmed", "completed">>,
   <<"confirmed", "disputed">>, <<"confirmed", "cancelled">>}

\* C8: the status of a match changes only along pending -> confirmed ->
\* {completed, disputed, cancelled}; a cancelled match stays cancelled and no
\* rating changes because of it.
C8_StatusEdges ==
  [][\A m \in Rows :
       /\ matches'[m].status # matches[m].status =>
            <<matches[m].status, matches'[m].status>> \in StatusEdges
       /\ matches[m].status = "cancelled" =>
            /\ audit'[m].credit1 = audit[m].credit1
            /\ audit'[m].credit2 = audit[m].credit2]_vars

\* C9: games_played never decreases, and a profile's rating and games_played
\* change only in a profile UPDATE of processMatchResult, after that call has
\* set the match to completed, for a participant of that match, by one game.
C9_ProfilesChangeOnlyOnFinalize ==
  [][\A u \in Users, s \in Sports :
       LET old == profiles[u][s]
           new == profiles'[u][s]
       IN  /\ new.games_played >= old.games_played
           /\ (new.rating # old.rating \/ new.games_played # old.games_played) =>
                /\ new.games_played = old.games_played + 1
                /\ \E p \in Procs :
                     /\ procs[p].pc = "profiles"
                     /\ procs'[p] # procs[p]
                     /\ u \in {procs[p].match.player1_id, procs[p].match.player2_id}
                     /\ s = procs[p].match.sport_id
                     /\ audit[procs[p].matchId].completed >= 1]_vars

\* a match made by a match request was finalized and both players were credited
C9_Witness ==
  /\ Len(requests) >= 1
  /\ \E m \in Rows :
       /\ matches[m].status = "completed"
       /\ LET a == matches[m].player1_id
              b == matches[m].player2_id
              s == matches[m].sport_id
          IN  /\ profiles[a][s].games_played = InitProfiles[a][s].games_played + 1
              /\ profiles[b][s].games_played = InitProfiles[b][s].games_played + 1
              /\ profiles[a][s].rating # InitProfiles[a][s].rating

\* the K-factor tiers: 32 below 10 games, 24 from 10 to 29, 16 from 30
KFactorTier(gamesPlayed) ==
  IF gamesPlayed <= 9 THEN 32
  ELSE IF gamesPlayed <= 29 THEN 24
  ELSE 16

C11_InvalidOutcomeThrows ==
  engine.called =>
    IF engine.result \in Outcomes
    THEN ~engine.returned.error
    ELSE /\ engine.returned.error
         /\ engine.returned.player1 = NoChange
         /\ engine.returned.player2 = NoChange

\* a call with an outcome outside the three has thrown
C11_Witness ==
  /\ engine.called
  /\ engine.result \notin Outcomes
  /\ engine.returned.error
  /\ engine.returned.player1.newRating = Null

C20_DrawBetweenEquals ==
  (/\ engine.called
   /\ engine.player1.rating = engine.player2.rating
   /\ engine.result = "draw") =>
    /\ ~engine.returned.error
    /\ engine.returned.player1.ratingChange = 0
    /\ engine.returned.player2.ratingChange = 0
    /\ engine.returned.player1.newRating = engine.player1.rating
    /\ engine.returned.player2.newRating = engine.player2.rating

\* a draw between two players rated 1484.37, one with K = 32 and one with
\* K = 16, left both ratings alone
C20_Witness ==
  /\ engine.called
  /\ engine.result = "draw"
  /\ engine.player1.rating = 148437
  /\ engine.player2.rating = 148437
  /\ engine.returned.player1.kFactor = 32
  /\ engine.returned.player2.kFactor = 16
  /\ engine.returned.player1.newRating = 148437
  /\ engine.returned.player2.ratingChange = 0

(***************************************************************************)
(* Properties of the candidate search.                                     *)
(***************************************************************************)
\* the ids in the returned list
ReturnedIds == {search.returned[i].userId : i \in 1..Len(search.returned)}

\* the candidate query of the call has run: the requester has a primary
\* location and the list is not the catch's
SearchRan ==
  /\ search.called
  /\ ~search.failed
  /\ users[search.userId].location # NoLocation

\* the players holding an active match request for the sport of the call
ActiveRequesters ==
  {requests[i].requester_id :
     i \in {k \in 1..Len(requests) : /\ requests[k].sport_id = search.sportId
                                      /\ requests[k].status = "active"}}

\* a player eligible but for the rating: another player with an active profile
\* for the sport, verified, with a primary location within maxDistanceKm, and
\* no active request for the sport
OtherwiseEligible(u) ==
  /\ u # search.userId
  /\ profiles[u][search.sportId].is_active
  /\ users[u].is_verified
  /\ users[u].location # NoLocation
  /\ Distance(users[u].location, users[search.userId].location)
       <= search.maxDistanceKm * 1000
  /\ u \notin ActiveRequesters

\* the list holds exactly the players of want, or Limit of them when there are more
ReturnsExactly(want) ==
  IF Cardinality(want) <= Limit
  THEN ReturnedIds = want
  ELSE ReturnedIds \subseteq want /\ Len(search.returned) = Limit

\* C12: called without a rating band (minRating and maxRating both null, or
\* both left out as a match request does), findMatchCandidates returns exactly
\* the otherwise-eligible players whose rating is within maxRatingDiff of the
\* requester's, the boundary included.
C12_NoBandKeepsWithinDiff ==
  (/\ SearchRan
   /\ <<search.minRating, search.maxRating>> \in {<<Null, Null>>, <<Undefined, Undefined>>}) =>
    ReturnsExactly({u \in DOMAIN users :
                      /\ OtherwiseEligible(u)
                      /\ Abs(profiles[u][search.sportId].rating - search.userRating)
                           <= search.maxRatingDiff})

\* C13: called with a band [minRating, maxRating], findMatchCandidates returns
\* exactly the otherwise-eligible players whose rating lies in the band,
\* whatever their distance from the requester's rating.
C13_BandKeepsInsideBand ==
  (/\ SearchRan
   /\ search.minRating \notin {Null, Undefined}
   /\ search.maxRating \notin {Null, Undefined}) =>
    ReturnsExactly({u \in DOMAIN users :
                      /\ OtherwiseEligible(u)
                      /\ search.minRating <= profiles[u][search.sportId].rating
                      /\ profiles[u][search.sportId].rating <= search.maxRating})

\* C14: the list returned by findMatchCandidates never holds the requester.
C14_RequesterNotReturned ==
  search.called => search.userId \notin ReturnedIds

\* a list with candidates was returned to a requester who passes every
\* condition of the query but for being the requester
C14_Witness ==
  /\ SearchRan
  /\ Len(search.returned) > 0
  /\ search.userId \notin ReturnedIds
  /\ search.userId \in
       CandidateUsersWithSelf(
         QueryParams(search.userId, search.sportId, users[search.userId].location,
                     search.userRating, search.maxDistanceKm, search.minRating,
                     search.maxRating, search.maxRatingDiff),
         users[search.userId].location, search.maxDistanceKm,
         search.minRating, search.maxRating)

\* the tier of a candidate: how close the candidate's rating is to the requester's
RatingTier(rating, requesterRating) ==
  IF Abs(rating - requesterRating) <= 100 * Cents THEN 1
  ELSE IF Abs(rating - requesterRating) <= 200 * Cents THEN 2
  ELSE 3

\* (tier, distance) of a is not after (tier, distance) of b
NotAfter(ratingA, distanceA, ratingB, distanceB) ==
  LET ta == RatingTier(ratingA, search.userRating)
      tb == RatingTier(ratingB, search.userRating)
  IN  ta < tb \/ (ta = tb /\ distanceA <= distanceB)

Selected ==
  CandidateUsers(
    QueryParams(search.userId, search.sportId, users[search.userId].location,
                search.userRating, search.maxDistanceKm, search.minRating,
                search.maxRating, search.maxRatingDiff),
    users[search.userId].location, search.maxDistanceKm,
    search.minRating, search.maxRating)

PassesOtherFilters(u) ==
  LET queryParams == QueryParams(search.userId, search.sportId,
                       users[search.userId].location, search.userRating,
                       search.maxDistanceKm, search.minRating, search.maxRating,
                       search.maxRatingDiff)
  IN  /\ u # search.userId
      /\ profiles[u][search.sportId].is_active
      /\ users[u].is_verified
      /\ users[u].location # NoLocation
      /\ Distance(users[u].location, users[search.userId].location) * Cents
           <= queryParams[5]
      /\ RatingFilter(profiles[u][search.sportId].rating, queryParams,
                      search.minRating, search.maxRating)

\* C17: no returned player holds an active match request for the sport of the
\* call; a player whose requests for the sport are cancelled or matched, or
\* whose active request is for another sport, is returned when the player
\* passes the other conditions of the query (and the list is not cut at 10).
C17_ActiveRequestersExcluded ==
  /\ search.called => ReturnedIds \cap ActiveRequesters = {}
  /\ (SearchRan /\ Len(search.returned) < Limit) =>
       \A u \in DOMAIN users :
         (PassesOtherFilters(u) /\ u \notin ActiveRequesters) => u \in ReturnedIds

\* player 2 holds an active request for the sport and is left out although
\* passing the other conditions, player 3 holds an active request for another
\* sport and is returned
C17_Witness ==
  /\ SearchRan
  /\ search.userId = 1
  /\ PassesOtherFilters(2) /\ 2 \in ActiveRequesters /\ 2 \notin ReturnedIds
  /\ \E i \in 1..Len(requests) :
       /\ requests[i].requester_id = 3
       /\ requests[i].status = "active"
       /\ requests[i].sport_id # search.sportId
  /\ 3 \in ReturnedIds

\* C18: findMatchCandidates returns a list in every case: the empty list when
\* the requester has no primary location or the query selects nobody, and a
\* list with candidates whenever the requester has a location and the query
\* selects at least one player.
C18_EmptyOnlyWhenNobody ==
  search.called =>
    IF users[search.userId].location = NoLocation THEN search.returned = <<>>
    ELSE (search.returned = <<>>) <=> (Selected = {})

(***************************************************************************)
(* Properties of the rating arithmetic and of finalization.                *)
(***************************************************************************)
\* C21: between two players of the same rating r a decisive outcome gives the
\* winner r + K/2 and the loser r - K/2, each with the K-factor of that
\* player's own gamesPlayed.
C21_DecisiveBetweenEquals ==
  (/\ engine.called
   /\ engine.player1.rating = engine.player2.rating
   /\ engine.result \in {"player1_win", "player2_win"}) =>
    LET r  == engine.player1.rating
        k1 == KFactorTier(engine.player1.gamesPlayed)
        k2 == KFactorTier(engine.player2.gamesPlayed)
        sign1 == IF engine.result = "player1_win" THEN 1 ELSE -1
    IN  /\ ~engine.returned.error
        /\ engine.returned.player1.kFactor = k1
        /\ engine.returned.player2.kFactor = k2
        /\ 2 * engine.returned.player1.newRating = 2 * r + sign1 * k1 * Cents
        /\ 2 * engine.returned.player2.newRating = 2 * r - sign1 * k2 * Cents

\* ({1500, 5}, {1500, 5}, player1_win) returned 1516 and 1484, both with K = 32
C21_Witness ==
  /\ engine.called
  /\ engine.player1 = [rating |-> 1500 * Cents, gamesPlayed |-> 5]
  /\ engine.player2 = [rating |-> 1500 * Cents, gamesPlayed |-> 5]
  /\ engine.result = "player1_win"
  /\ engine.returned.player1.newRating = 1516 * Cents
  /\ engine.returned.player2.newRating = 1484 * Cents
  /\ engine.returned.player1.kFactor = 32
  /\ engine.returned.player2.kFactor = 32

\* C22: when a stored rating read during finalization is not a number, no
\* step writes a value that is not a number: the rating_after and
\* rating_change columns of the match stay numbers or NULL, and a profile
\* rating that is a number stays a number.
C22_NoInvalidRatingWritten ==
  [][/\ \A m \in 1..Len(matches') :
          /\ matches'[m].player1_rating_after # NaN
          /\ matches'[m].player2_rating_after # NaN
          /\ matches'[m].rating_change_player1 # NaN
          /\ matches'[m].rating_change_player2 # NaN
     /\ \A u \in Users, s \in Sports :
          profiles[u][s].rating # NaN => profiles'[u][s].rating # NaN]_vars

\* wins + losses + draws = games_played in every profile row
TalliesAddUp(pp) ==
  \A u \in Users, s \in Sports :
    pp[u][s].wins + pp[u][s].losses + pp[u][s].draws = pp[u][s].games_played

\* the profile row old with one more game, counted as a win, a loss or a draw
Credited(old, rating, tally) ==
  [old EXCEPT !.rating = rating,
              !.games_played = @ + 1,
              !.wins = @ + (IF tally = "win" THEN 1 ELSE 0),
              !.losses = @ + (IF tally = "loss" THEN 1 ELSE 0),
              !.draws = @ + (IF tally = "draw" THEN 1 ELSE 0)]

\* what the outcome of a match means for player 1 and for player 2
TallyOf(outcome, side) ==
  IF outcome = "draw" THEN "draw"
  ELSE IF (outcome = "player1_win") = (side = 1) THEN "win"
  ELSE "loss"

\* C23: wins + losses + draws = games_played for every player in every state,
\* and each finalization of a match adds exactly one to the winner's wins, to
\* the loser's losses, or for a draw to both players' draws, together with
\* one game.
C23_TalliesMatchGames ==
  [][/\ TalliesAddUp(profiles) /\ TalliesAddUp(profiles')
     /\ profiles' # profiles =>
          \E p \in Procs, side \in {1, 2} :
            LET l == procs[p]
                u == IF side = 1 THEN l.match.player1_id ELSE l.match.player2_id
                s == l.match.sport_id
                outcome == EloResult(l.player1Result, l.player2Result)
            IN  /\ l.pc = "profiles"
                /\ outcome \in Outcomes
                /\ profiles' = [profiles EXCEPT ![u][s] =
                                  Credited(@, profiles'[u][s].rating, TallyOf(outcome, side))]]_vars

\* player 1 won match 1: one more win for player 1, one more loss for player 2,
\* one more game for each
C23_Witness ==
  /\ Len(matches) >= 1
  /\ matches[1].status = "completed"
  /\ matches[1].player1_result = "win" /\ matches[1].player2_result = "loss"
  /\ audit[1].credit1 = 1 /\ audit[1].credit2 = 1
  /\ profiles[1][1] = [InitProfiles[1][1] EXCEPT !.rating = profiles[1][1].rating,
                          !.games_played = @ + 1, !.wins = @ + 1]
  /\ profiles[2][1] = [InitProfiles[2][1] EXCEPT !.rating = profiles[2][1].rating,
                          !.games_played = @ + 1, !.losses = @ + 1]
  /\ TalliesAddUp(profiles)

\* the rating of a player rated r with g games after a match with the stored
\* opponent v, the player being player 1 of the match
RatingAfter(r, g, v, outcome) ==
  calculateRatingChanges(
    [rating |-> r, gamesPlayed |-> g],
    [rating |-> InitProfiles[v][1].rating, gamesPlayed |-> InitProfiles[v][1].games_played],
    outcome).player1.newRating

\* the ratings of user 1 after the matches against a and b, one after the other
OneAfterTheOther(a, outcomeA, b, outcomeB) ==
  LET r0 == InitProfiles[1][1].rating
      g0 == InitProfiles[1][1].games_played
  IN  RatingAfter(RatingAfter(r0, g0, a, outcomeA), g0 + 1, b, outcomeB)

\* C24: when the two matches of a shared player have both been finalized, once
\* each, the player's stored rating is the one obtained by applying the two
\* rating changes one after the other, in one of the two orders.
C24_SharedPlayerGetsBoth ==
  (/\ Len(matches) = 2
   /\ \A m \in {1, 2} :
        /\ matches[m].status = "completed"
        /\ matches[m].player1_id = 1
        /\ audit[m].elo = 1 /\ audit[m].credit1 = 1 /\ audit[m].credit2 = 1
   /\ matches[1].player2_id # matches[2].player2_id
   /\ \A p \in Procs : procs[p].pc = "idle") =>
    LET o1 == EloResult(matches[1].player1_result, matches[1].player2_result)
        o2 == EloResult(matches[2].player1_result, matches[2].player2_result)
        a  == matches[1].player2_id
        b  == matches[2].player2_id
    IN  (o1 \in Outcomes /\ o2 \in Outcomes) =>
          profiles[1][1].rating \in {OneAfterTheOther(a, o1, b, o2),
                                     OneAfterTheOther(b, o2, a, o1)}

\* the active requests of user u for sport s
ActiveRequestsOf(u, s) ==
  {i \in DOMAIN requests : /\ requests[i].requester_id = u
                            /\ requests[i].sport_id = s
                            /\ requests[i].status = "active"}

LeftActive(i) ==
  /\ i \in 1..Len(requests)
  /\ requests[i].status = "active"
  /\ \A p \in Procs : ~(procs[p].pc \in RequestPcs /\ procs[p].requestId = i)

\* the requester of request i passes every condition of the candidate query of
\* request j but the one on active requests
Compatible(i, j) ==
  LET a == requests[i].requester_id
      b == requests[j].requester_id
      s == requests[j].sport_id
      queryParams == QueryParams(b, s, users[b].location, profiles[b][s].rating,
                       requests[j].max_distance_km, requests[j].min_rating,
                       requests[j].max_rating, 200 * Cents)
  IN  /\ a # b
      /\ requests[i].sport_id = s
      /\ profiles[a][s].is_active
      /\ users[a].is_verified
      /\ users[a].location # NoLocation
      /\ users[b].location # NoLocation
      /\ Distance(users[a].location, users[b].location) * Cents <= queryParams[5]
      /\ RatingFilter(profiles[a][s].rating, queryParams,
                      requests[j].min_rating, requests[j].max_rating)

\* a match between the requesters of requests i and j exists
MatchedTogether(i, j) ==
  \E m \in 1..Len(matches) :
    {matches[m].player1_id, matches[m].player2_id}
      = {requests[i].requester_id, requests[j].requester_id}

C27_FirstCandidateIsMatched ==
  [][/\ \A p \in Procs :
          LET l == procs[p]
          IN  /\ (l.pc = "find" /\ procs'[p].pc = "createMatch") =>
                   /\ \E c \in findMatchCandidates(l.user, l.sportId, l.userRating,
                                 l.maxDistanceKm, l.minRating, l.maxRating, 200 * Cents) :
                        Len(c) > 0 /\ procs'[p].bestCandidate = c[1].userId
                   /\ matches' = matches /\ requests' = requests
              /\ (l.pc = "find" /\ procs'[p].pc = "idle") =>
                   matches' = matches /\ requests' = requests
              /\ (l.pc = "createMatch" /\ procs'[p].pc = "markMatched") =>
                   /\ Len(matches') = Len(matches) + 1
                   /\ SubSeq(matches', 1, Len(matches)) = matches
                   /\ matches'[Len(matches')].status = "confirmed"
                   /\ matches'[Len(matches')].player1_id = l.user
                   /\ matches'[Len(matches')].player2_id = l.bestCandidate
                   /\ requests' = requests
              /\ (l.pc = "markMatched" /\ procs'[p].pc = "idle") =>
                   /\ requests'[l.requestId].status = "matched"
                   /\ requests'[l.requestId].matched_with_user_id = l.bestCandidate
                   /\ requests'[l.requestId].requester_id = l.user
                   /\ matches' = matches
     /\ Len(matches') # Len(matches) =>
          \E p \in Procs : procs[p].pc = "createMatch" /\ procs'[p].pc = "markMatched"]_vars

\* a call of user 1 has ended with a match: the match of user 1 with user 2 is
\* the only one, confirmed, and the request is matched with user 2
C27_Witness ==
  /\ response.route = "request" /\ response.seen = "matched"
  /\ Len(matches) = 1
  /\ matches[1].player1_id = 1 /\ matches[1].player2_id = 2
  /\ matches[1].status = "confirmed"
  /\ Len(requests) = 1
  /\ requests[1].requester_id = 1
  /\ requests[1].status = "matched"
  /\ requests[1].matched_with_user_id = 2

\* the two players of match m
Participants(m) == {matches[m].player1_id, matches[m].player2_id}

RoundedHalfUp(n, x) ==
  LET unit == Scale \div Cents
  IN  2 * n * unit - unit <= 2 * x /\ 2 * x < 2 * n * unit + unit

\* the actual score of player 1 for an outcome, in Scale units
ActualOfPlayer1(result) ==
  IF result = "player1_win" THEN Scale
  ELSE IF result = "player2_win" THEN 0
  ELSE Scale \div 2

\* C29: for each player newRating is rating + K * (actual - expected) rounded
\* to two decimals, halves up, and ratingChange is newRating - rating, so that
\* rating + ratingChange = newRating (ratings with two decimals).
C29_RoundedToTwoDecimals ==
  (engine.called /\ engine.result \in Outcomes) =>
    LET a  == engine.player1
        b  == engine.player2
        s1 == ActualOfPlayer1(engine.result)
        o1 == engine.returned.player1
        o2 == engine.returned.player2
    IN  /\ ~engine.returned.error
        /\ RoundedHalfUp(o1.newRating - a.rating,
              KFactorTier(a.gamesPlayed)
                * (s1 - calculateExpectedScore(a.rating, b.rating)))
        /\ RoundedHalfUp(o2.newRating - b.rating,
              KFactorTier(b.gamesPlayed)
                * ((Scale - s1) - calculateExpectedScore(b.rating, a.rating)))
        /\ a.rating + o1.ratingChange = o1.newRating
        /\ b.rating + o2.ratingChange = o2.newRating

\* 1500 (5 games) beat 1516 (20 games): 32 * 0.5230 = 16.7363 is rounded up to
\* 16.74, and -24 * 0.5230 = -12.5522 is rounded up to -12.55
C29_Witness ==
  /\ engine.called
  /\ engine.result = "player1_win"
  /\ engine.player1 = [rating |-> 1500 * Cents, gamesPlayed |-> 5]
  /\ engine.player2 = [rating |-> 1516 * Cents, gamesPlayed |-> 20]
  /\ engine.returned.player1.ratingChange = 1674
  /\ engine.returned.player1.newRating = 151674
  /\ engine.returned.player2.ratingChange = -1255
  /\ engine.returned.player2.newRating = 150345

\* C30: when the two players have the same K-factor, the two rating changes
\* returned by calculateRatingChanges add up to zero, for every outcome and
\* every pair of ratings.
C30_SameKFactorZeroSum ==
  (/\ engine.called
   /\ engine.result \in Outcomes
   /\ getKFactor(engine.player1.gamesPlayed) = getKFactor(engine.player2.gamesPlayed)) =>
    /\ ~engine.returned.error
    /\ engine.returned.player1.kFactor = engine.returned.player2.kFactor
    /\ engine.returned.player1.ratingChange + engine.returned.player2.ratingChange = 0
    /\ engine.returned.player1.newRating + engine.returned.player2.newRating
         = engine.player1.rating + engine.player2.rating

\* 1484.37 (12 games) lost to 1516 (25 games), both with K = 24: the loser's
\* change is the opposite of the winner's and is not zero
C30_Witness ==
  /\ engine.called
  /\ engine.result = "player2_win"
  /\ engine.player1 = [rating |-> 148437, gamesPlayed |-> 12]
  /\ engine.player2 = [rating |-> 1516 * Cents, gamesPlayed |-> 25]
  /\ engine.returned.player1.kFactor = 24
  /\ engine.returned.player2.kFactor = 24
  /\ engine.returned.player2.ratingChange > 0
  /\ engine.returned.player1.ratingChange = -engine.returned.player2.ratingChange

====
